---------------------------- MODULE Spec2Model ----------------------------
(***************************************************************************)
(* A model of src/src/components/Chatbot.jsx: the Chatbot component (the   *)
(* transcript `messages`, the busy flag `loading`, sendMessage and the     *)
(* local responder localAssistant) together with its only caller, the      *)
(* ChatInput component (the textarea `value`, handleSend, onKeyDown and    *)
(* the Send button).                                                       *)
(*                                                                         *)
(* Text is a sequence of one-character strings, so that trim, toLowerCase, *)
(* includes, endsWith and JSON.stringify are computed character by         *)
(* character.  The one non-ASCII character of the source, the em dash of   *)
(* line 121, is written "u2014".                                           *)
(***************************************************************************)
EXTENDS Integers, Sequences, FiniteSets, TLC

\* The number of submissions (calls of handleSend) a behaviour may hold.
MaxSubmits == 2

\* The longest text typed in the behaviours of SpecFallback.
MaxTextLen == 5

VARIABLES
    baseUrl,    \* import.meta.env.VITE_BACKEND_URL, read at line 104
    messages,   \* the transcript, useState(initialMessages)
    loading,    \* the busy flag, useState(false)
    value,      \* the textarea's text, ChatInput's useState('')
    calls,      \* the invocations of sendMessage, in order of invocation
    network,    \* the requests handed to fetch, in order
    nextId,     \* the number of ids crypto.randomUUID() has returned
    submits     \* the number of times handleSend has run

vars == <<baseUrl, messages, loading, value, calls, network, nextId, submits>>

---------------------------------------------------------------------------
(* JavaScript values.  Every value is a record of the same shape: its type *)
(* t, its literal text s (for a string, its characters) and, for an        *)
(* object, its properties in insertion order.                              *)

JsUndefined == [t |-> "undefined", s |-> <<>>, fields |-> <<>>]

JsNull == [t |-> "null", s |-> <<"n","u","l","l">>, fields |-> <<>>]

JsString(chars) == [t |-> "string", s |-> chars, fields |-> <<>>]

JsNumber(digits) == [t |-> "number", s |-> digits, fields |-> <<>>]

JsBoolean(b) ==
    [t |-> "boolean",
     s |-> IF b THEN <<"t","r","u","e">> ELSE <<"f","a","l","s","e">>,
     fields |-> <<>>]

JsObject(props) == [t |-> "object", s |-> <<>>, fields |-> props]

\* ToBoolean, as `||`, `!` and `if` apply it.
Truthy(v) ==
    CASE v.t = "undefined" -> FALSE
      [] v.t = "null"      -> FALSE
      [] v.t = "string"    -> v.s # <<>>
      [] v.t = "number"    -> v.s # <<"0">>
      [] v.t = "boolean"   -> v.s = <<"t","r","u","e">>
      [] OTHER             -> TRUE

\* Reading a property of null or undefined throws a TypeError.
PropertyReadThrows(v) == v.t \in {"null", "undefined"}

\* v.key for a value whose properties can be read: the property's value, or
\* undefined when v has no such property.
GetProp(v, key) ==
    LET at == {i \in 1..Len(v.fields) : v.fields[i].k = key}
    IN  IF at = {} THEN JsUndefined
        ELSE v.fields[CHOOSE i \in at : \A j \in at : j <= i].v

RECURSIVE Escape(_)
\* The characters of a string as JSON.stringify writes them inside quotes.
Escape(chars) ==
    IF chars = <<>> THEN <<>>
    ELSE LET c == Head(chars)
             e == CASE c = "\"" -> <<"\\", "\"">>
                    [] c = "\\" -> <<"\\", "\\">>
                    [] c = "\n" -> <<"\\", "n">>
                    [] c = "\t" -> <<"\\", "t">>
                    [] OTHER    -> <<c>>
         IN  e \o Escape(Tail(chars))

\* JSON.stringify of a value that is no object.
StringifyPrimitive(v) ==
    IF v.t = "string" THEN <<"\"">> \o Escape(v.s) \o <<"\"">> ELSE v.s

RECURSIVE StringifyProps(_)
\* The properties of an object, each as "key":value, separated by commas.
StringifyProps(props) ==
    IF props = <<>> THEN <<>>
    ELSE LET p == Head(props)
             one == <<"\"">> \o Escape(p.k) \o <<"\"", ":">>
                        \o StringifyPrimitive(p.v)
         IN  IF Tail(props) = <<>> THEN one
             ELSE one \o <<",">> \o StringifyProps(Tail(props))

\* JSON.stringify(v), for v a parsed JSON value whose properties hold no
\* objects.
JSONstringify(v) ==
    IF v.t = "object" THEN <<"{">> \o StringifyProps(v.fields) \o <<"}">>
    ELSE StringifyPrimitive(v)

---------------------------------------------------------------------------
(* Strings.                                                                *)

UPPER ==
    <<"A","B","C","D","E","F","G","H","I","J","K","L","M","N","O","P","Q",
      "R","S","T","U","V","W","X","Y","Z">>

LOWER ==
    <<"a","b","c","d","e","f","g","h","i","j","k","l","m","n","o","p","q",
      "r","s","t","u","v","w","x","y","z">>

\* The white space String.prototype.trim removes (of the characters in use).
WhiteSpace == {" ", "\t", "\n"}

ToLowerChar(c) ==
    IF \E i \in 1..Len(UPPER) : UPPER[i] = c
    THEN LOWER[CHOOSE i \in 1..Len(UPPER) : UPPER[i] = c]
    ELSE c

\* String.prototype.toLowerCase
ToLowerCase(chars) == [i \in 1..Len(chars) |-> ToLowerChar(chars[i])]

\* String.prototype.includes
Includes(chars, pat) ==
    \E i \in 0..(Len(chars) - Len(pat)) :
        SubSeq(chars, i + 1, i + Len(pat)) = pat

\* String.prototype.endsWith
EndsWith(chars, suffix) ==
    /\ Len(chars) >= Len(suffix)
    /\ SubSeq(chars, Len(chars) - Len(suffix) + 1, Len(chars)) = suffix

RECURSIVE TrimStart(_)
TrimStart(chars) ==
    IF chars # <<>> /\ Head(chars) \in WhiteSpace
    THEN TrimStart(Tail(chars)) ELSE chars

RECURSIVE TrimEnd(_)
TrimEnd(chars) ==
    IF chars # <<>> /\ chars[Len(chars)] \in WhiteSpace
    THEN TrimEnd(SubSeq(chars, 1, Len(chars) - 1)) ELSE chars

\* String.prototype.trim
Trim(chars) == TrimEnd(TrimStart(chars))

\* baseUrl.replace(/\/$/, ''), line 134
StripTrailingSlash(chars) ==
    IF EndsWith(chars, <<"/">>) THEN SubSeq(chars, 1, Len(chars) - 1)
    ELSE chars

---------------------------------------------------------------------------
(* The literals of the source.                                             *)

WELCOME ==
    <<"H","i","!"," ","I","'","m"," ","y","o","u","r"," ","A","I"," ","a",
      "s","s","i","s","t","a","n","t","."," ","A","s","k"," ","m","e"," ",
      "a","n","y","t","h","i","n","g"," ","o","r"," ","s","a","y"," ","h",
      "e","l","l","o"," ","t","o"," ","g","e","t"," ","s","t","a","r","t",
      "e","d",".">>

GREETING ==
    <<"H","e","l","l","o","!"," ","H","o","w"," ","c","a","n"," ","I"," ",
      "h","e","l","p"," ","y","o","u"," ","t","o","d","a","y","?">>

GUIDANCE ==
    <<"G","r","e","a","t"," ","q","u","e","s","t","i","o","n","!"," ","I",
      " ","d","o","n","'","t"," ","h","a","v","e"," ","a"," ","s","e","r",
      "v","e","r"," ","c","o","n","n","e","c","t","e","d"," ","y","e","t",
      ","," ","b","u","t"," ","I"," ","c","a","n"," ","s","t","i","l","l",
      " ","h","e","l","p"," ","b","r","a","i","n","s","t","o","r","m"," ",
      "a","n","s","w","e","r","s","."," ","T","r","y"," ","a","s","k","i",
      "n","g"," ","m","e"," ","t","o"," ","o","u","t","l","i","n","e"," ",
      "s","t","e","p","s",","," ","s","u","m","m","a","r","i","z","e"," ",
      "t","e","x","t",","," ","o","r"," ","g","e","n","e","r","a","t","e",
      " ","i","d","e","a","s",".">>

TEMPLATE_HEAD ==
    <<"Y","o","u"," ","s","a","i","d",":"," ","\"">>

TEMPLATE_TAIL ==
    <<"\""," ","u2014"," ","t","e","l","l"," ","m","e"," ","m","o","r","e",
      " ","a","n","d"," ","I"," ","c","a","n"," ","h","e","l","p"," ","r",
      "e","f","i","n","e"," ","i","t",".">>

HELLO == <<"h","e","l","l","o">>

HI == <<"h","i">>

QUESTION_MARK == <<"?">>

KEY_reply == <<"r","e","p","l","y">>

KEY_message == <<"m","e","s","s","a","g","e">>

CHAT_PATH == <<"/","c","h","a","t">>

initialMessages ==
    << [id |-> "welcome", role |-> "assistant", content |-> JsString(WELCOME)] >>


---------------------------------------------------------------------------
(* The environment: the configuration, what the user types, and what the   *)
(* backend answers.                                                        *)

\* VITE_BACKEND_URL: not set, set to the empty string, or set to a URL.
BaseUrls ==
    {JsUndefined, JsString(<<>>), JsString(<<"/","a","p","i">>),
     JsString(<<"/","a","p","i","/">>)}

\* What onChange may put in the textarea.
TypedValues ==
    { <<" ", "\n">>,
      <<" ", "H", "i", "\n">>,
      <<"g", "o", "?">> }

\* The characters of the texts of SpecFallback.
Alphabet == {"h", "H", "i", "e", "l", "o", "?"}

\* Every text of at most MaxTextLen characters of Alphabet.
AllTexts == UNION { [1..n -> Alphabet] : n \in 0..MaxTextLen }

\* The keys onKeyDown is told of.
KeyEvents ==
    { [key |-> "Enter", shiftKey |-> FALSE],
      [key |-> "Enter", shiftKey |-> TRUE],
      [key |-> "a", shiftKey |-> FALSE] }

Prop(key, v) == IF v = JsUndefined THEN <<>> ELSE << [k |-> key, v |-> v] >>

\* The values the backend gives the reply property (JsUndefined: none).
ReplyValues ==
    {JsUndefined, JsString(<<"X">>), JsString(<<>>), JsNull,
     JsNumber(<<"0">>), JsBoolean(FALSE)}

\* The values the backend gives the message property (JsUndefined: none).
MessageValues == {JsUndefined, JsString(<<"M">>), JsString(<<>>)}

\* The JSON bodies res.json() may parse: objects with or without a reply and
\* a message property, null, a string and a number.
Bodies ==
    { JsObject(Prop(KEY_reply, r) \o Prop(KEY_message, m)) :
          r \in ReplyValues, m \in MessageValues }
    \cup {JsNull, JsString(<<"S">>), JsNumber(<<"0">>)}

\* The bodies the backend answers with in the behaviours of Spec.
BackendBodies ==
    {JsObject(Prop(KEY_reply, JsString(<<"X">>))), JsNull}

---------------------------------------------------------------------------
(* Chatbot, lines 100-157.                                                 *)

\* crypto.randomUUID(): a fresh identifier at every call.
UUID(n) == "uuid-" \o ToString(n)

\* localAssistant with the test of line 118 put before that of line 115.
localAssistant_questionFirst(text) ==
    LET lower == ToLowerCase(text)
    IN  IF EndsWith(text, QUESTION_MARK) THEN GUIDANCE
        ELSE IF Includes(lower, HELLO) \/ Includes(lower, HI) THEN GREETING
        ELSE TEMPLATE_HEAD \o text \o TEMPLATE_TAIL

\* localAssistant, lines 112-122: the string its promise resolves to.
localAssistant(text) ==
    LET lower == ToLowerCase(text)
    IN  IF Includes(lower, HELLO) \/ Includes(lower, HI) THEN GREETING
        ELSE IF EndsWith(text, QUESTION_MARK) THEN GUIDANCE
        ELSE TEMPLATE_HEAD \o text \o TEMPLATE_TAIL

\* Line 141 with message read before reply.
ReplyOf_messageFirst(data) ==
    LET reply   == GetProp(data, KEY_reply)
        message == GetProp(data, KEY_message)
    IN  IF Truthy(message) THEN message
        ELSE IF Truthy(reply) THEN reply
        ELSE JsString(JSONstringify(data))

\* data.reply || data.message || JSON.stringify(data), line 141, for data
\* whose properties can be read.
ReplyOf(data) ==
    LET reply   == GetProp(data, KEY_reply)
        message == GetProp(data, KEY_message)
    IN  IF Truthy(reply) THEN reply
        ELSE IF Truthy(message) THEN message
        ELSE JsString(JSONstringify(data))

\* The request of lines 134-138.
Request(text) ==
    [url     |-> StripTrailingSlash(baseUrl.s) \o CHAT_PATH,
     method  |-> "POST",
     headers |-> "Content-Type: application/json",
     body    |-> JSONstringify(
                     JsObject(<< [k |-> KEY_message, v |-> JsString(text)] >>))]

\* A call of sendMessage and where it stands: awaiting fetch ("fetch"),
\* awaiting res.json() ("json"), awaiting the promise of localAssistant
\* ("local"), or returned ("done").
Call(text, pc, outcome, reply) ==
    [text |-> text, pc |-> pc, outcome |-> outcome, data |-> JsUndefined,
     reply |-> reply, userId |-> UUID(nextId), assistantId |-> "",
     busyAtInvoke |-> loading]

\* sendMessage without the test of line 131: fetch is always called.
sendMessage_alwaysFetch(text) ==
    LET userMsg == [id |-> UUID(nextId), role |-> "user",
                    content |-> JsString(text)]
    IN  /\ messages' = Append(messages, userMsg)
        /\ loading' = TRUE
        /\ nextId' = nextId + 1
        /\ network' = Append(network, Request(text))
        /\ calls' = Append(calls, Call(text, "fetch", "pending", JsUndefined))

\* sendMessage with line 126 as setMessages((m) => [userMsg, ...m]).
sendMessage_prepend(text) ==
    LET userMsg == [id |-> UUID(nextId), role |-> "user",
                    content |-> JsString(text)]
    IN  /\ messages' = <<userMsg>> \o messages
        /\ loading' = TRUE
        /\ nextId' = nextId + 1
        /\ IF Truthy(baseUrl)
           THEN /\ network' = Append(network, Request(text))
                /\ calls' = Append(calls,
                       Call(text, "fetch", "pending", JsUndefined))
           ELSE /\ network' = network
                /\ calls' = Append(calls,
                       Call(text, "local", "no_backend",
                            JsString(localAssistant(text))))

\* sendMessage up to its first await, lines 124-134 and 148-149: the user's
\* message is appended, loading is set, and either fetch is called or
\* localAssistant is.
sendMessage(text) ==
    LET userMsg == [id |-> UUID(nextId), role |-> "user",
                    content |-> JsString(text)]
    IN  /\ messages' = Append(messages, userMsg)
        /\ loading' = TRUE
        /\ nextId' = nextId + 1
        /\ IF Truthy(baseUrl)
           THEN /\ network' = Append(network, Request(text))
                /\ calls' = Append(calls,
                       Call(text, "fetch", "pending", JsUndefined))
           ELSE /\ network' = network
                /\ calls' = Append(calls,
                       Call(text, "local", "no_backend",
                            JsString(localAssistant(text))))

\* Lines 143 and 146 with the error reported instead of the local reply.
AwaitLocal_errorText(c, outcome, data) ==
    /\ calls' = [calls EXCEPT ![c].pc = "local", ![c].outcome = outcome,
                              ![c].data = data,
                              ![c].reply = JsString(<<"E","r","r","o","r">>)]
    /\ UNCHANGED <<baseUrl, messages, loading, value, network, nextId, submits>>

\* Lines 143 and 146: localAssistant is called and awaited.
AwaitLocal(c, outcome, data) ==
    /\ calls' = [calls EXCEPT ![c].pc = "local", ![c].outcome = outcome,
                              ![c].data = data,
                              ![c].reply = JsString(localAssistant(calls[c].text))]
    /\ UNCHANGED <<baseUrl, messages, loading, value, network, nextId, submits>>

\* Lines 152-156 with line 153 as setMessages((m) => [...m.slice(0, -1),
\* assistantMsg]): the reply takes the place of the last message.
Complete_replaceLast(c, outcome, data, reply) ==
    LET assistantMsg == [id |-> UUID(nextId), role |-> "assistant",
                         content |-> reply]
    IN  /\ messages' = Append(SubSeq(messages, 1, Len(messages) - 1),
                              assistantMsg)
        /\ loading' = FALSE
        /\ nextId' = nextId + 1
        /\ calls' = [calls EXCEPT ![c].pc = "done", ![c].outcome = outcome,
                                  ![c].data = data, ![c].reply = reply,
                                  ![c].assistantId = UUID(nextId)]
        /\ UNCHANGED <<baseUrl, value, network, submits>>

\* Lines 152-156: the assistant's message is appended and loading cleared.
Complete(c, outcome, data, reply) ==
    LET assistantMsg == [id |-> UUID(nextId), role |-> "assistant",
                         content |-> reply]
    IN  /\ messages' = Append(messages, assistantMsg)
        /\ loading' = FALSE
        /\ nextId' = nextId + 1
        /\ calls' = [calls EXCEPT ![c].pc = "done", ![c].outcome = outcome,
                                  ![c].data = data, ![c].reply = reply,
                                  ![c].assistantId = UUID(nextId)]
        /\ UNCHANGED <<baseUrl, value, network, submits>>

\* A continuation is queued as a microtask: it runs before any other event.
MicrotaskPending == \E c \in 1..Len(calls) : calls[c].pc = "local"

\* fetch rejects and nothing catches it: lines 145-147 left out, so that
\* only the finally of line 154 runs.
FetchThrows_uncaught(c) ==
    /\ ~MicrotaskPending
    /\ c \in 1..Len(calls) /\ calls[c].pc = "fetch"
    /\ calls' = [calls EXCEPT ![c].pc = "done", ![c].outcome = "fetch_threw"]
    /\ loading' = FALSE
    /\ UNCHANGED <<baseUrl, messages, value, network, nextId, submits>>

\* fetch rejects (line 145): a timeout, a refused connection.
FetchThrows(c) ==
    /\ ~MicrotaskPending
    /\ c \in 1..Len(calls) /\ calls[c].pc = "fetch"
    /\ AwaitLocal(c, "fetch_threw", JsUndefined)

\* fetch resolves and res.ok is false (line 142).
FetchNotOk(c) ==
    /\ ~MicrotaskPending
    /\ c \in 1..Len(calls) /\ calls[c].pc = "fetch"
    /\ AwaitLocal(c, "not_ok", JsUndefined)

\* fetch resolves and res.ok is true (line 139): res.json() is awaited.
FetchOk(c) ==
    /\ ~MicrotaskPending
    /\ c \in 1..Len(calls) /\ calls[c].pc = "fetch"
    /\ calls' = [calls EXCEPT ![c].pc = "json"]
    /\ UNCHANGED <<baseUrl, messages, loading, value, network, nextId, submits>>

\* res.json() rejects (line 145): the body is no JSON.
JsonThrows(c) ==
    /\ ~MicrotaskPending
    /\ c \in 1..Len(calls) /\ calls[c].pc = "json"
    /\ AwaitLocal(c, "json_threw", JsUndefined)

\* res.json() resolves to data (lines 140-141, then 152-156; a TypeError of
\* line 141 is caught at line 145).
JsonParsed(c, data) ==
    /\ ~MicrotaskPending
    /\ c \in 1..Len(calls) /\ calls[c].pc = "json"
    /\ IF PropertyReadThrows(data)
       THEN AwaitLocal(c, "ok", data)
       ELSE Complete(c, "ok", data, ReplyOf(data))

\* The promise of localAssistant resolves (lines 143, 146, 149, then 152-156).
LocalResolved(c) ==
    /\ c \in 1..Len(calls) /\ calls[c].pc = "local"
    /\ Complete(c, calls[c].outcome, calls[c].data, calls[c].reply)

---------------------------------------------------------------------------
(* ChatInput, lines 43-98.                                                 *)

\* handleSend without line 56.
handleSend_noEmptyCheck ==
    LET text == Trim(value)
    IN  /\ submits' = submits + 1
        /\ sendMessage(text)
        /\ value' = <<>>
        /\ UNCHANGED baseUrl

\* handleSend, lines 54-59.
handleSend ==
    LET text == Trim(value)
    IN  /\ submits' = submits + 1
        /\ IF text = <<>>
           THEN UNCHANGED <<baseUrl, messages, loading, value, calls, network,
                            nextId>>
           ELSE /\ sendMessage(text)
                /\ value' = <<>>
                /\ UNCHANGED baseUrl

\* The textarea's onChange, line 75.
onChange(v) ==
    /\ ~MicrotaskPending
    /\ value' = v
    /\ UNCHANGED <<baseUrl, messages, loading, calls, network, nextId, submits>>

\* The textarea's onKeyDown, lines 61-66.
onKeyDown(e) ==
    /\ ~MicrotaskPending
    /\ submits < MaxSubmits
    /\ IF e.key = "Enter" /\ ~e.shiftKey
       THEN handleSend
       ELSE UNCHANGED vars

\* The Send button, lines 80-82: a disabled button takes no click.
onClick ==
    /\ ~MicrotaskPending
    /\ submits < MaxSubmits
    /\ ~(loading \/ Len(Trim(value)) = 0)
    /\ handleSend

---------------------------------------------------------------------------
(* The component from its first render.                                    *)

Init ==
    /\ baseUrl \in BaseUrls
    /\ messages = initialMessages
    /\ loading = FALSE
    /\ value = <<>>
    /\ calls = <<>>
    /\ network = <<>>
    /\ nextId = 1
    /\ submits = 0

Next ==
    \/ \E v \in TypedValues : onChange(v)
    \/ \E e \in KeyEvents : onKeyDown(e)
    \/ onClick
    \/ \E c \in 1..MaxSubmits : FetchThrows(c)
    \/ \E c \in 1..MaxSubmits : FetchNotOk(c)
    \/ \E c \in 1..MaxSubmits : FetchOk(c)
    \/ \E c \in 1..MaxSubmits : JsonThrows(c)
    \/ \E c \in 1..MaxSubmits, data \in BackendBodies : JsonParsed(c, data)
    \/ \E c \in 1..MaxSubmits : LocalResolved(c)

Spec == Init /\ [][Next]_vars

\* A call that awaits something takes its next step.
Resolve(c) ==
    \/ FetchThrows(c)
    \/ FetchNotOk(c)
    \/ FetchOk(c)
    \/ JsonThrows(c)
    \/ \E data \in BackendBodies : JsonParsed(c, data)
    \/ LocalResolved(c)

\* Next with one text to type: which text is sent decides no step a call
\* takes.
NextFair ==
    \/ \E v \in {<<" ", "H", "i", "\n">>} : onChange(v)
    \/ \E e \in KeyEvents : onKeyDown(e)
    \/ onClick
    \/ \E c \in 1..MaxSubmits : Resolve(c)

\* The component with every promise a call awaits settled in the end: the
\* transport answers or fails, and a queued continuation runs.
FairSpec ==
    Init /\ [][NextFair]_vars /\ \A c \in 1..MaxSubmits : WF_vars(Resolve(c))

\* The component without a backend, with any text already typed.
InitFallback ==
    /\ baseUrl = JsUndefined
    /\ messages = initialMessages
    /\ loading = FALSE
    /\ value \in AllTexts
    /\ calls = <<>>
    /\ network = <<>>
    /\ nextId = 1
    /\ submits = 0

NextFallback ==
    \/ \E e \in KeyEvents : onKeyDown(e)
    \/ \E c \in 1..MaxSubmits : LocalResolved(c)

SpecFallback == InitFallback /\ [][NextFallback]_vars

\* The component with a backend whose requests succeed, with a text typed.
InitReply ==
    /\ baseUrl \in {b \in BaseUrls : Truthy(b)}
    /\ messages = initialMessages
    /\ loading = FALSE
    /\ value \in {v \in TypedValues : Trim(v) # <<>>}
    /\ calls = <<>>
    /\ network = <<>>
    /\ nextId = 1
    /\ submits = 0

NextReply ==
    \/ \E e \in KeyEvents : onKeyDown(e)
    \/ onClick
    \/ \E c \in 1..MaxSubmits : FetchOk(c)
    \/ \E c \in 1..MaxSubmits, data \in Bodies : JsonParsed(c, data)
    \/ \E c \in 1..MaxSubmits : LocalResolved(c)

SpecReply == InitReply /\ [][NextReply]_vars

---------------------------------------------------------------------------
(* What the claims speak of.                                               *)

Done(c) == calls[c].pc = "done"

\* Where the transcript holds the user's message of call c.
UserAt(c) == {i \in 1..Len(messages) : messages[i].id = calls[c].userId}

\* Where the transcript holds the assistant's message of call c.
AssistantAt(c) ==
    {i \in 1..Len(messages) : messages[i].id = calls[c].assistantId}

\* The content of the assistant's message of a call that has returned.
AssistantContent(c) == messages[CHOOSE i \in AssistantAt(c) : TRUE].content

\* The calls that have not returned.
InFlight == {c \in 1..Len(calls) : ~Done(c)}

\* Every send was made while loading was false.
StrictlySequential == \A c \in 1..Len(calls) : ~calls[c].busyAtInvoke

UserMessage(c) ==
    [id |-> calls[c].userId, role |-> "user",
     content |-> JsString(calls[c].text)]

AssistantMessage(c) ==
    [id |-> calls[c].assistantId, role |-> "assistant",
     content |-> calls[c].reply]

RECURSIVE SendsInOrder(_)
\* user(t1), assistant(r1), ..., user(tn) and, once call n has returned,
\* assistant(rn).
SendsInOrder(n) ==
    IF n = 0 THEN <<>>
    ELSE SendsInOrder(n - 1) \o <<UserMessage(n)>>
             \o (IF Done(n) THEN <<AssistantMessage(n)>> ELSE <<>>)

\* Two characters that are the same letter, whatever their case.
SameLetter(a, b) ==
    \/ a = b
    \/ \E i \in 1..Len(UPPER) : {a, b} = {UPPER[i], LOWER[i]}

\* text holds pat as a substring, ignoring case.
ContainsIgnoringCase(text, pat) ==
    \E i \in 1..Len(text) :
        /\ i + Len(pat) - 1 <= Len(text)
        /\ \A k \in 1..Len(pat) : SameLetter(text[i + k - 1], pat[k])

\* The three-way classification of the local responder.
Classified(text) ==
    IF ContainsIgnoringCase(text, HELLO) \/ ContainsIgnoringCase(text, HI)
    THEN GREETING
    ELSE IF text # <<>> /\ text[Len(text)] = "?"
    THEN GUIDANCE
    ELSE TEMPLATE_HEAD \o text \o TEMPLATE_TAIL

\* data has a property named key.
HasField(data, key) ==
    \E i \in 1..Len(data.fields) : data.fields[i].k = key

\* A property value that `||` keeps: present and none of "", 0, false, null.
Kept(v) ==
    v \notin {JsUndefined, JsNull, JsString(<<>>), JsNumber(<<"0">>),
              JsBoolean(FALSE)}

---------------------------------------------------------------------------
(* The claims.                                                             *)

\* C1: every call sendMessage(t) appends the user's message with content t
\* and then, by the time it returns, exactly one assistant message after it;
\* the transcript holds nothing else beside the initial messages, and no
\* step removes or changes a message the transcript holds.
C1_SendAppendsUserThenAssistant ==
    /\ [](/\ \A c \in 1..Len(calls) :
               /\ \E i \in UserAt(c) :
                      UserAt(c) = {i} /\ messages[i] = UserMessage(c)
               /\ IF Done(c)
                  THEN \E j \in AssistantAt(c) :
                           /\ AssistantAt(c) = {j}
                           /\ messages[j].role = "assistant"
                           /\ \A i \in UserAt(c) : i < j
                  ELSE AssistantAt(c) = {}
          /\ Len(messages) = Len(initialMessages) + Len(calls)
                 + Cardinality({c \in 1..Len(calls) : Done(c)}))
    /\ [][/\ Len(messages') >= Len(messages)
          /\ SubSeq(messages', 1, Len(messages)) = messages]_vars

\* A call has returned, with both of its messages in the transcript.
C1_Witness ==
    \E c \in 1..Len(calls) :
        Done(c) /\ UserAt(c) # {} /\ AssistantAt(c) # {}

\* C2: a submission of empty or all-white-space input changes neither the
\* transcript nor the busy flag, calls sendMessage not at all and issues no
\* request.
C2_BlankInputIsNoOp ==
    [][(submits' # submits /\ Trim(value) = <<>>)
          => /\ messages' = messages
             /\ loading' = loading
             /\ calls' = calls
             /\ network' = network]_vars

\* handleSend has run on white space alone, and nothing was sent.
C2_Witness ==
    /\ submits > 0
    /\ value # <<>> /\ Trim(value) = <<>>
    /\ calls = <<>> /\ messages = initialMessages /\ ~loading
    /\ network = <<>>

\* C3: loading is true exactly while some call of sendMessage has not
\* returned.
C3_BusyExactlyWhileInFlight == loading <=> (InFlight # {})

\* C10: at most one call of sendMessage is in flight, and none is made while
\* loading is true.
C10_AtMostOneInFlight ==
    /\ Cardinality(InFlight) <= 1
    /\ StrictlySequential

\* C4: with a base URL, when fetch rejects, the status is no success or the
\* body cannot be parsed, the assistant's message is localAssistant(t).
C4_FailureGivesLocalReply ==
    \A c \in 1..Len(calls) :
        (/\ Truthy(baseUrl)
         /\ Done(c)
         /\ calls[c].outcome \in {"fetch_threw", "not_ok", "json_threw"})
            => AssistantContent(c) = JsString(localAssistant(calls[c].text))

\* Two calls have returned, one after a rejected fetch or a status that is
\* no success, one after a body that could not be parsed.
C4_Witness ==
    /\ Truthy(baseUrl)
    /\ \E c \in 1..Len(calls) :
           Done(c) /\ calls[c].outcome \in {"fetch_threw", "not_ok"}
    /\ \E c \in 1..Len(calls) : Done(c) /\ calls[c].outcome = "json_threw"

\* C5, as claimed: with a success status the reply is body.reply whenever
\* the body has a reply property, else body.message whenever it has a
\* message property, else the serialized body.
C5_AnyReplyFieldWins ==
    \A c \in 1..Len(calls) :
        (Done(c) /\ calls[c].outcome = "ok")
            => AssistantContent(c) =
                   IF HasField(calls[c].data, KEY_reply)
                   THEN GetProp(calls[c].data, KEY_reply)
                   ELSE IF HasField(calls[c].data, KEY_message)
                   THEN GetProp(calls[c].data, KEY_message)
                   ELSE JsString(JSONstringify(calls[c].data))

\* C5, amended: with a success status and a body other than null, the reply
\* is body.reply when that is kept by `||` (present and none of "", 0,
\* false, null), else body.message when that is kept, else the serialized
\* body; a null body gives localAssistant(t).
C5_TruthyFieldWins ==
    \A c \in 1..Len(calls) :
        (Done(c) /\ calls[c].outcome = "ok")
            => AssistantContent(c) =
                   IF calls[c].data = JsNull
                   THEN JsString(localAssistant(calls[c].text))
                   ELSE IF Kept(GetProp(calls[c].data, KEY_reply))
                   THEN GetProp(calls[c].data, KEY_reply)
                   ELSE IF Kept(GetProp(calls[c].data, KEY_message))
                   THEN GetProp(calls[c].data, KEY_message)
                   ELSE JsString(JSONstringify(calls[c].data))

\* The body {"reply":"","message":"M"} was answered with M.
C5_Witness ==
    \E c \in 1..Len(calls) :
        /\ Done(c) /\ calls[c].outcome = "ok"
        /\ calls[c].data = JsObject(<< [k |-> KEY_reply, v |-> JsString(<<>>)],
                                       [k |-> KEY_message, v |-> JsString(<<"M">>)] >>)
        /\ AssistantContent(c) = JsString(<<"M">>)

\* C6: without a base URL no request is ever issued and every reply is
\* localAssistant(t).
C6_NoBaseUrlNoNetwork ==
    ~Truthy(baseUrl)
        => /\ network = <<>>
           /\ \A c \in 1..Len(calls) :
                  /\ calls[c].pc \in {"local", "done"}
                  /\ Done(c) =>
                         AssistantContent(c) =
                             JsString(localAssistant(calls[c].text))

\* Without a base URL two calls have returned.
C6_Witness ==
    /\ ~Truthy(baseUrl)
    /\ Len(calls) = 2 /\ Done(1) /\ Done(2)
    /\ network = <<>>

\* C7: the local reply is the greeting when the text holds "hello" or "hi"
\* ignoring case, else the guidance when the text ends with "?", else the
\* template around the text as typed.
C7_LocalReplyClassification ==
    \A c \in 1..Len(calls) :
        /\ calls[c].reply = JsString(Classified(calls[c].text))
        /\ Done(c) => AssistantContent(c) = JsString(Classified(calls[c].text))

\* "Hi?" was answered with the greeting: case is ignored, and the greeting
\* goes before the guidance.
C7_Witness ==
    \E c \in 1..Len(calls) :
        /\ Done(c)
        /\ calls[c].text = <<"H", "i", "?">>
        /\ AssistantContent(c) = JsString(GREETING)

\* C8: every call of sendMessage returns in the end with its assistant
\* message in the transcript, and loading never stays true for ever.
C8_EverySendCompletes ==
    /\ \A c \in 1..MaxSubmits :
           (Len(calls) >= c)
               ~> (Len(calls) >= c /\ Done(c) /\ AssistantAt(c) # {})
    /\ loading ~> ~loading

\* A call that asked the backend has returned and loading is false again.
C8_Witness ==
    /\ ~loading
    /\ \E c \in 1..Len(calls) :
           Done(c) /\ calls[c].outcome # "no_backend" /\ AssistantAt(c) # {}

\* C9, as claimed: after two strictly sequential sends the transcript is
\* [user(t1), assistant(r1), user(t2), assistant(r2)].
C9_TranscriptIsTheSends ==
    (StrictlySequential /\ Len(calls) = 2 /\ Done(1) /\ Done(2))
        => messages = SendsInOrder(2)

\* C9, amended: after strictly sequential sends the transcript is the
\* initial welcome message followed by user(t1), assistant(r1), user(t2),
\* assistant(r2), ...
C9_InitialThenSendsInOrder ==
    StrictlySequential
        => messages = initialMessages \o SendsInOrder(Len(calls))

\* Two strictly sequential sends to the backend have returned.
C9_Witness ==
    /\ StrictlySequential
    /\ Truthy(baseUrl)
    /\ Len(calls) = 2 /\ Done(1) /\ Done(2)
    /\ Len(messages) = Len(initialMessages) + 4

============================================================================
